---- MODULE Spec2Model ----
(***************************************************************************)
(* Psychrometric property functions and the iterative wet-bulb solver of   *)
(* the PyChrometrics notebook (src/.virtual_documents/Untitled.ipynb).     *)
(*                                                                         *)
(* The notebook computes with Python floats wrapped in pint quantities.    *)
(* Here every quantity is a decimal fixed-point integer:                   *)
(*   temperatures (deg F, deg C, K)      in units of 10^-6                 *)
(*   pressures in psi                    in units of 10^-7                 *)
(*   pressures in Pa                     in units of 10^-4                 *)
(*   logarithms of pressure              in units of 10^-7                 *)
(*   humidity ratios, specific heats,                                      *)
(*   the solver's step size delta        in units of 10^-8                 *)
(*   relative humidity                   in units of 10^-4                 *)
(* Products and quotients are rounded to the nearest unit (MulDiv), as a   *)
(* float operation rounds to the nearest representable value.  All         *)
(* temperature quantities are tagged degF, as the docstrings require.      *)
(* A Python exception is a result record of kind "raise".                  *)
(***************************************************************************)
EXTENDS Integers, Sequences, FiniteSets, TLC

\* ------------------------------------------------------------ fixed point

TScale == 10^6
PScale == 10^7
WScale == 10^8
RHScale == 10^4
E9 == 10^9
E8 == 10^8

Abs(x) == IF x < 0 THEN -x ELSE x

Sign(x) == IF x < 0 THEN -1 ELSE 1

\* The arithmetic is written as functions: a function's arguments are values,
\* so each is computed once however often the body uses it.

\* The binary digits of b from weight w down, most significant first:
\* <<q, r>> with a * (b \div (2 w)) = q * c + r on entry becomes the pair for
\* a * b.  Sums are reduced modulo c before they can leave 32 bits.
MulDivBits[q \in Int, r \in Int, a \in Int, b \in Int, c \in Int, w \in Int] ==
    IF w = 0 THEN <<q, r>>
    ELSE LET d == IF r >= c - r THEN <<2 * q + 1, r - (c - r)>> ELSE <<2 * q, r + r>>
             e == IF (b \div w) % 2 = 0 THEN d
                  ELSE IF d[2] >= c - a THEN <<d[1] + 1, d[2] - (c - a)>>
                  ELSE <<d[1], d[2] + a>>
         IN  MulDivBits[e[1], e[2], a, b, c, w \div 2]

\* <<q, r>> with a * b = q * c + r and 0 <= r < c, for 0 <= a < c, b >= 0
MulDivRem[a \in Int, b \in Int, c \in Int] ==
    IF b = 0 \/ a = 0 THEN <<0, 0>>
    ELSE IF b <= 2147483647 \div a THEN <<(a * b) \div c, (a * b) % c>>
    ELSE MulDivBits[0, 0, a, b, c, 2^30]

\* the quotient of qr = <<q, r>> rounded to the nearest integer
RoundQ[qr \in Int \X Int, c \in Int] == qr[1] + (IF qr[2] >= c - qr[2] THEN 1 ELSE 0)

\* a * b / c rounded to the nearest integer, for a, b >= 0 and c > 0
MulDivU[a \in Int, b \in Int, c \in Int] ==
    (a \div c) * b + RoundQ[MulDivRem[a % c, b, c], c]

\* a * b / c rounded to the nearest integer (halves away from zero), c # 0
MulDiv[a \in Int, b \in Int, c \in Int] ==
    Sign(a) * Sign(b) * Sign(c) * MulDivU[Abs(a), Abs(b), Abs(c)]

Pow2(k) == 2^k

\* ------------------------------------------------------------ results

Value(x) == [kind |-> "value", val |-> x, exc |-> "none"]

Raise(e) == [kind |-> "raise", val |-> 0, exc |-> e]

NoOutput == [kind |-> "none", val |-> 0, exc |-> "none"]

IsValue(r) == r.kind = "value"

\* the results of a call: a value, or an exception raised
Result == [kind : {"value", "raise"}, val : Int, exc : STRING]

\* ------------------------------------------------------------ math.log, math.exp

\* log 2 in units of 10^-8
Ln2 == 69314718

\* position of the leading binary digit of x / 10^6, for x > 0, counted from k
Log2Floor[x \in Int, k \in Int] ==
    IF x >= 2 * TScale THEN Log2Floor[x \div 2, k + 1]
    ELSE IF x < TScale THEN Log2Floor[x * 2, k - 1]
    ELSE k

\* number of terms of the series of atanh
LnTerms == 10

\* sum over n = i .. LnTerms of z^(2n+1) / (2n+1), q = z^(2i+1), z2 = z^2,
\* in units of 10^-9
AtanhSeries[q \in Int, z2 \in Int, i \in Int] ==
    IF i > LnTerms THEN 0
    ELSE MulDiv[q, 1, 2 * i + 1] + AtanhSeries[MulDiv[q, z2, E9], z2, i + 1]

\* atanh z, in units of 10^-9
Atanh[z \in Int] == z + AtanhSeries[MulDiv[MulDiv[z, z, E9], z, E9], MulDiv[z, z, E9], 1]

\* 2^k in units of 10^-6
Pow2Scaled(k) == IF k >= 0 THEN Pow2(k) * TScale ELSE TScale \div Pow2(-k)

\* log x for x = m * c, c = 2^k, 1 <= m < 2: k log 2 + 2 atanh((m - 1) / (m + 1))
LnNorm[x \in Int, c \in Int, k \in Int] ==
    k * Ln2 + MulDiv[2 * Atanh[MulDiv[x - c, E9, x + c]], 1, 10]

\* log x with k the position of the leading binary digit of x
LnAt[x \in Int, k \in Int] == LnNorm[x, Pow2Scaled(k), k]

\* math.log(x): x > 0 in units of 10^-6, result in units of 10^-8
Ln[x \in Int] == LnAt[x, Log2Floor[x, 0]]

\* number of terms of the series of exp
ExpTerms == 13

\* sum over n = i .. ExpTerms of r^n / n!, t = r^i / i!, in units of 10^-9
ExpSeries[t \in Int, r \in Int, i \in Int] ==
    IF i > ExpTerms THEN 0
    ELSE t + ExpSeries[MulDiv[MulDiv[t, r, E9], 1, i + 1], r, i + 1]

\* s * 2^k, from units of 10^-9 to units of 10^-4
ExpScale[s \in Int, k \in Int] ==
    IF k >= 0 THEN MulDiv[s, Pow2(k), 10^5] ELSE MulDiv[s, 1, Pow2(-k) * 10^5]

\* exp y8 = 2^k exp r for y8 = k log 2 + r, 0 <= r < log 2; y8 in units of 10^-8
ExpSplit[y8 \in Int, k \in Int] ==
    ExpScale[E9 + ExpSeries[(y8 - k * Ln2) * 10, (y8 - k * Ln2) * 10, 1], k]

\* math.exp(y): y in units of 10^-7, result in units of 10^-4 (pascal).
\* Below exp(-10) the result is less than half a unit and rounds to 0.
Exp[y \in Int] == IF y < -10 * PScale THEN 0 ELSE ExpSplit[y * 10, (y * 10) \div Ln2]

\* ------------------------------------------------------------ pint conversions

\* Quantity.to('K') of a degF quantity: (F + 459.67) * 5 / 9
ToKelvin(T) == MulDiv[T + 459670000, 5, 9]

\* Quantity.to('degC') of a degF quantity: (F - 32) * 5 / 9
ToCelsius(T) == MulDiv[T - 32 * TScale, 5, 9]

\* Quantity(P, 'Pa').to('psi'): 1 psi = 6894.75729 Pa; from 10^-4 Pa to 10^-7 psi
PaToPsi(P) == MulDiv[P, E8, 689475729]

\* 1 kJ/(kg K) in Btu/(lb degF), in units of 10^-9:
\* 1000 / 1055.056 * 0.45359237 * 5 / 9
BtuPerLbF == 238845897

\* Quantity(c, 'kJ / (kg * K)').to('Btu / (lb * degF)'); c in units of 10^-8 J/(kg K)
ToBtuPerLbF(c) == MulDiv[c, BtuPerLbF, E9]

\* ------------------------------------------------------------ specific heats

\* (0.0265 C^2 - 1.7688 C + 4205.6) * 1e-3 kJ/(kg K), C in deg C
Cp_water_C[C \in Int] ==
    ToBtuPerLbF(MulDiv[265, MulDiv[C, C, E8], 1000] - MulDiv[17688, C, 10^5] + 420560000)

\* Cp_water(T_wb): specific heat of water, Btu/(lb degF)
Cp_water(T_wb) == Cp_water_C[ToCelsius(T_wb)]

\* (0.0016 C^2 + 0.1546 C + 1858.7) * 1e-3 kJ/(kg K), C in deg C
Cp_vapor_C[C \in Int] ==
    ToBtuPerLbF(MulDiv[16, MulDiv[C, C, E8], 1000] + MulDiv[1546, C, 10^5] + 185870000)

\* Cp_vapor(T_db): specific heat of water vapour, Btu/(lb degF)
Cp_vapor(T_db) == Cp_vapor_C[ToCelsius(T_db)]

\* Cp_dry_air(T_db, T_wb): (0.0667 (Cdb + Cwb) / 2 + 1005) * 1e-3 kJ/(kg degC)
Cp_dry_air(T_db, T_wb) ==
    ToBtuPerLbF(MulDiv[MulDiv[667, ToCelsius(T_db) + ToCelsius(T_wb), 10^5], 1, 2]
                + 100500000)

\* ------------------------------------------------------------ saturation pressure

\* Below 30 K both correlations give less than 10^-60 Pa, which is 0 here.
TinyKelvin == 30 * TScale

\* exp(ln_P) in psi, with the errors of C[0] / T and log(T) for T <= 0
PressureAt(T, ln_P) ==
    IF T = 0 THEN Raise("ZeroDivisionError")
    ELSE IF T < 0 THEN Raise("ValueError")
    ELSE IF T < TinyKelvin THEN Value(0)
    ELSE Value(PaToPsi(Exp[ln_P]))

\* Hyland-Wexler coefficients over ice, as decimal mantissas: C[0] in 10^-4,
\* C[1] in 10^-7, C[2] in 10^-9, C[3] in 10^-14, C[4] in 10^-16, C[5] in 10^-20,
\* C[6] in 10^-7
C_ice == <<-56745359, 63925247, -9677843, 62215701, 20747825, -94840240, 41635019>>

\* ln_P_is for T in kelvin with T2 = T**2, T3 = T**3, T4 = T**4
Ln_P_is[T \in Int, T2 \in Int, T3 \in Int, T4 \in Int] ==
    MulDiv[C_ice[1], E9, T] + C_ice[2] + MulDiv[C_ice[3], T, E8]
    + MulDiv[MulDiv[C_ice[4], T2, E9], 1, 10]
    + MulDiv[MulDiv[C_ice[5], T3, E9], 1, 10]
    + MulDiv[MulDiv[C_ice[6], T4, E9], 1, 1000]
    + MulDiv[C_ice[7], Ln[T], E8]

\* T**4 from T**3
Ice4[T \in Int, T2 \in Int, T3 \in Int] == Ln_P_is[T, T2, T3, MulDiv[T3, T, E8]]

\* T**3 from T**2
Ice3[T \in Int, T2 \in Int] == Ice4[T, T2, MulDiv[T2, T, E8]]

\* P_ice_sat at T kelvin
P_ice_sat_K[T \in Int] == PressureAt(T, Ice3[T, MulDiv[T, T, E9]])

\* P_ice_sat(T_db): saturation pressure over ice, psi
P_ice_sat(T_db) == P_ice_sat_K[ToKelvin(T_db)]

\* Hyland-Wexler coefficients over water: C[0] in 10^-4, C[1] in 10^-7,
\* C[2] in 10^-9, C[3] in 10^-12, C[4] in 10^-15, C[5] in 10^-7
C_water == <<-58002206, 13914994, -48640239, 41764768, -14452093, 65459673>>

\* ln_P_sat for T in kelvin with T2 = T**2
Ln_P_sat[T \in Int, T2 \in Int] ==
    MulDiv[C_water[1], E9, T] + C_water[2] + MulDiv[C_water[3], T, E8]
    + MulDiv[C_water[4], T2, E8] + MulDiv[C_water[5], MulDiv[T2, T, E8], E9]
    + MulDiv[C_water[6], Ln[T], E8]

\* P_w_sat at T kelvin
P_w_sat_K[T \in Int] == PressureAt(T, Ln_P_sat[T, MulDiv[T, T, E9]])

\* P_w_sat(T_db): saturation pressure over water, psi
P_w_sat(T_db) == P_w_sat_K[ToKelvin(T_db)]

\* a dispatcher that sends 32 itself to the ice correlation
P_v_sat_Inclusive(T_db) ==
    IF T_db <= 32 * TScale THEN P_ice_sat(T_db) ELSE P_w_sat(T_db)

\* a dispatcher that compares the Celsius magnitude with 32
P_v_sat_Celsius(T_db) ==
    IF ToCelsius(T_db) < 32 * TScale THEN P_ice_sat(T_db) ELSE P_w_sat(T_db)

\* P_v_sat(T_db): ice correlation below 32, water correlation otherwise
P_v_sat(T_db) == IF T_db < 32 * TScale THEN P_ice_sat(T_db) ELSE P_w_sat(T_db)

\* ------------------------------------------------------------ humidity ratio

Patm == 146960000

MMR == 62198

\* MMR * p / (Patm - p), p a vapour pressure in psi
Ratio[p \in Int] ==
    IF Patm - p = 0 THEN Raise("ZeroDivisionError")
    ELSE Value(MulDiv[MulDiv[MMR, p, 10^5], WScale, Patm - p])

\* the ratio at relative humidity rh of the saturation pressure Pws, or Pws's exception
RatioOf[Pws \in Result, rh \in Int] ==
    IF IsValue(Pws) THEN Ratio[MulDiv[Pws.val, rh, RHScale]] ELSE Pws

\* W_sat(T_db): saturated humidity ratio, from P_v_sat
W_sat(T_db) == RatioOf[P_v_sat(T_db), RHScale]

\* the line commented out at line 93: W from the dispatcher P_v_sat
W_Dispatched(T_db, rh) == RatioOf[P_v_sat(T_db), rh]

\* W with the magnitude of RH read as a percentage: RH.m / 100
W_Percent(T_db, rh) == RatioOf[P_w_sat(T_db), rh \div 100]

\* W without the factor RH in the vapour pressure
W_Saturated(T_db, rh) == RatioOf[P_w_sat(T_db), RHScale]

\* W(T_db, RH): humidity ratio at relative humidity RH, from P_w_sat
W(T_db, rh) == RatioOf[P_w_sat(T_db), rh]

h_fg == 1069900000

\* a / b of W0 and W1
Quotient[a \in Int, b \in Int] ==
    IF b = 0 THEN Raise("ZeroDivisionError") ELSE Value(MulDiv[a, WScale, b])

\* the estimate with Cp_w + Cp_v in place of Cp_w - Cp_v in the numerator
Estimate_SignSlip(Cp_w, Cp_v, Cp_da, Ws_wb, tdb, twb) ==
    Quotient[MulDiv[h_fg - MulDiv[Cp_w + Cp_v, twb, E8], Ws_wb, E8]
             - MulDiv[Cp_da, tdb - twb, E8],
             h_fg + MulDiv[Cp_v, tdb, E8] - MulDiv[Cp_w, twb, E8]]

\* a / b of W0 and W1, from the specific heats and the saturated ratio Ws_wb
Estimate(Cp_w, Cp_v, Cp_da, Ws_wb, tdb, twb) ==
    Quotient[MulDiv[h_fg - MulDiv[Cp_w - Cp_v, twb, E8], Ws_wb, E8]
             - MulDiv[Cp_da, tdb - twb, E8],
             h_fg + MulDiv[Cp_v, tdb, E8] - MulDiv[Cp_w, twb, E8]]

\* the estimate from the result Ws_wb of W_sat, or its exception
EstimateOf[Cp_w \in Int, Cp_v \in Int, Cp_da \in Int, Ws_wb \in Result,
           tdb \in Int, twb \in Int] ==
    IF IsValue(Ws_wb) THEN Estimate(Cp_w, Cp_v, Cp_da, Ws_wb.val, tdb, twb) ELSE Ws_wb

\* W0(Tdb, Twb): estimate with variable specific heats
W0(tdb, twb) ==
    EstimateOf[Cp_water(twb), Cp_vapor(tdb), Cp_dry_air(tdb, twb), W_sat(twb), tdb, twb]

Cp_da_const == 24000000

Cp_w_const == 99900000

Cp_v_const == 45100000

\* W1(T_db, T_wb): estimate with constant specific heats.  The saturated ratio
\* is taken at the module-level name Twb (line 144), passed here as g_Twb.
W1(tdb, twb, g_Twb) ==
    EstimateOf[Cp_w_const, Cp_v_const, Cp_da_const, W_sat(g_Twb), tdb, twb]

\* ------------------------------------------------------------ inputs

\* Dry- and wet-bulb temperatures (deg F) the property functions are called with:
\* 65, 20, 250, 32, 31.9, 45, 100
TempGrid == <<65000000, 20000000, 250000000, 32000000, 31900000, 45000000, 100000000>>

NTemps == 5

Temps == {TempGrid[i] : i \in 1..NTemps}

\* Relative humidities W is called with: 0.14, 0, 1, 1.5, -0.1, 0.0014, 0.9, 0.5
RHGrid == <<1400, 0, 10000, 15000, -1000, 14, 9000, 5000>>

NRH == 6

RHs == {RHGrid[i] : i \in 1..NRH}

\* Values the notebook's cell Twb = qty(..., 'degF') is run with: 45, 65, 20
TwbGrid == <<45000000, 65000000, 20000000>>

NTwb == 2

TwbValues == {TwbGrid[i] : i \in 1..NTwb}

\* (T_db, RH) pairs the solver is called with
SolveGrid == << <<65000000, 1400>>,  <<65000000, 0>>,     <<0, 5000>>,
                <<-40000000, 15000>>, <<65000000, 10000>>, <<65000000, 10>>,
                <<65000000, 100>>,   <<32000000, 5000>>,  <<32000000, 10000>>,
                <<100000000, 10000>>, <<150000000, 10000>>, <<20000000, 1400>>,
                <<40000000, 10000>> >>

NSolve == 11

SolveInputs == {SolveGrid[i] : i \in 1..NSolve}

\* ------------------------------------------------------------ state

VARIABLES
    Twb,      \* module-level Twb (line 243), deg F
    pc,       \* "idle": no cell running; "while": at T_wb_iter's loop condition
              \* (line 234); "body": in its loop body (lines 236-238);
              \* "done": the cell has ended and its output is shown
    call,     \* the call of the running or last cell
    out,      \* its result: a value or a raised exception
    T_wbm,    \* T_wb_iter: trial wet-bulb magnitude
    W_,       \* T_wb_iter: _W, the target humidity ratio W(T_db, RH)
    W0_       \* T_wb_iter: _W0, the current estimate W0(T_db, T_wbm)

vars == <<Twb, pc, call, out, T_wbm, W_, W0_>>

NoCall == [fn |-> "none", a |-> 0, b |-> 0]

Call(f, x, y) == [fn |-> f, a |-> x, b |-> y]

Init ==
    /\ Twb = 45000000
    /\ pc = "idle"
    /\ call = NoCall
    /\ out = NoOutput
    /\ T_wbm = 0
    /\ W_ = 0
    /\ W0_ = 0

\* ------------------------------------------------------------ cells

\* the cell "Twb = qty(v, 'degF')"
AssignTwb(v) ==
    /\ pc = "idle"
    /\ Twb' = v
    /\ UNCHANGED <<pc, call, out, T_wbm, W_, W0_>>

\* the cell's call c has ended with result r
Shown(c, r) ==
    /\ pc' = "done"
    /\ call' = c
    /\ out' = r
    /\ UNCHANGED <<Twb, T_wbm, W_, W0_>>

\* the cell "P_v_sat(t)"
CallP_v_sat(t) ==
    /\ pc = "idle"
    /\ Shown(Call("P_v_sat", t, 0), P_v_sat(t))

\* the cell "W_sat(t)"
CallW_sat(t) ==
    /\ pc = "idle"
    /\ Shown(Call("W_sat", t, 0), W_sat(t))

\* the cell "W(t, rh)"
CallW(t, rh) ==
    /\ pc = "idle"
    /\ Shown(Call("W", t, rh), W(t, rh))

\* the cell "W0(tdb, twb)"
CallW0(tdb, twb) ==
    /\ pc = "idle"
    /\ Shown(Call("W0", tdb, twb), W0(tdb, twb))

\* the cell "W1(tdb, twb)"; W1 reads the module-level Twb
CallW1(tdb, twb) ==
    /\ pc = "idle"
    /\ Shown(Call("W1", tdb, twb), W1(tdb, twb, Twb))

\* the kernel is ready for the next cell
NextCell ==
    /\ pc = "done"
    /\ pc' = "idle"
    /\ call' = NoCall
    /\ out' = NoOutput
    /\ UNCHANGED <<Twb, T_wbm, W_, W0_>>

\* ------------------------------------------------------------ T_wb_iter

epsilon == 100

\* a loop condition without abs
LoopGuard_Signed(w0, w) == w0 - w > epsilon

\* the loop condition abs(_W0.m - _W.m) > epsilon
LoopGuard(w0, w) == Abs(w0 - w) > epsilon

\* the cell ends with an exception; the solver's locals are gone
Throw(r) ==
    /\ pc' = "done"
    /\ out' = r
    /\ T_wbm' = 0
    /\ W_' = 0
    /\ W0_' = 0

\* lines 226-229: initial guess, target and first estimate
Begin(t_db, w, w0) ==
    IF ~IsValue(w) THEN Throw(w)
    ELSE IF ~IsValue(w0) THEN Throw(w0)
    ELSE /\ pc' = "while"
         /\ T_wbm' = t_db
         /\ W_' = w.val
         /\ W0_' = w0.val
         /\ out' = NoOutput

T_wb_iter_Enter(t_db, rh) ==
    /\ pc = "idle"
    /\ call' = Call("T_wb_iter", t_db, rh)
    /\ Begin(t_db, W(t_db, rh), W0(t_db, t_db))
    /\ UNCHANGED Twb

\* deltaW(): (abs(_W.m - _W0.m) / _W.m) / 100, in units of 10^-8
deltaW(w, w0) ==
    IF w = 0 THEN Raise("ZeroDivisionError")
    ELSE Value(MulDiv[Abs(w - w0), 10^6, w])

\* a factor that follows the sign of the residual: shrink above the target,
\* grow below it
StepFactor_Signed(w, w0, d) == IF w0 - w > 0 THEN E8 - d ELSE E8 + d

\* the factor of line 236: 1 - deltaW() if abs(_W0.m - _W.m) > 0 else 1 + deltaW()
StepFactor(w, w0, d) == IF Abs(w0 - w) > 0 THEN E8 - d ELSE E8 + d

\* line 238: the estimate w0 at the new trial t
Estimated(t, w0) ==
    IF ~IsValue(w0) THEN Throw(w0)
    ELSE /\ pc' = "while"
         /\ T_wbm' = t
         /\ W0_' = w0.val
         /\ UNCHANGED <<out, W_>>

\* line 238 at the new trial t
Retry(t) == Estimated(t, W0(call.a, t))

\* line 236 with d the result of deltaW()
Scaled(d) ==
    IF ~IsValue(d) THEN Throw(d)
    ELSE Retry(MulDiv[T_wbm, StepFactor(W_, W0_, d.val), E8])

\* line 234: the loop condition is true, the body is entered
T_wb_iter_While ==
    /\ pc = "while"
    /\ LoopGuard(W0_, W_)
    /\ pc' = "body"
    /\ UNCHANGED <<Twb, call, out, T_wbm, W_, W0_>>

\* lines 236-238: the loop body, then back to the loop condition
T_wb_iter_Step ==
    /\ pc = "body"
    /\ Scaled(deltaW(W_, W0_))
    /\ UNCHANGED <<Twb, call>>

\* line 240: the loop condition is false, return qty(T_wbm, "degF")
T_wb_iter_Return ==
    /\ pc = "while"
    /\ ~LoopGuard(W0_, W_)
    /\ pc' = "done"
    /\ out' = Value(T_wbm)
    /\ T_wbm' = 0
    /\ W_' = 0
    /\ W0_' = 0
    /\ UNCHANGED <<Twb, call>>

\* ------------------------------------------------------------ specification

Next ==
    \/ \E v \in TwbValues : AssignTwb(v)
    \/ \E t \in Temps : CallP_v_sat(t)
    \/ \E t \in Temps : CallW_sat(t)
    \/ \E t \in Temps, rh \in RHs : CallW(t, rh)
    \/ \E tdb \in Temps, twb \in Temps : CallW0(tdb, twb)
    \/ \E tdb \in Temps, twb \in Temps : CallW1(tdb, twb)
    \/ \E in \in SolveInputs : T_wb_iter_Enter(in[1], in[2])
    \/ T_wb_iter_While
    \/ T_wb_iter_Step
    \/ T_wb_iter_Return
    \/ NextCell

Spec == Init /\ [][Next]_vars

\* The interpreter keeps running the cell it is in: the loop test, the loop
\* body or the return that is possible is eventually taken.
FairSpec ==
    /\ Spec
    /\ WF_vars(T_wb_iter_While)
    /\ WF_vars(T_wb_iter_Step)
    /\ WF_vars(T_wb_iter_Return)

\* the solver is in its loop: at the loop condition or in the body
Iterating == pc \in {"while", "body"}

\* ------------------------------------------------------------ properties

\* the cell that called f has ended
Ended(f) == pc = "done" /\ call.fn = f

\* the residual |w - w0| of two humidity ratios is within the tolerance
WithinTolerance(w, w0) == IsValue(w) /\ IsValue(w0) /\ Abs(w.val - w0.val) <= epsilon

\* C1: whenever T_wb_iter(T_db, RH) returns a value T, the residual at T is within
\* the tolerance: |W(T_db, RH) - W0(T_db, T)| <= 1e-6.
C1_ReturnWithinTolerance ==
    (Ended("T_wb_iter") /\ IsValue(out))
        => WithinTolerance(W(call.a, call.b), W0(call.a, out.val))

\* the solver has iterated and returned a wet bulb below the dry bulb
C1_Witness ==
    /\ Ended("T_wb_iter")
    /\ IsValue(out)
    /\ call.b = 1400
    /\ out.val < call.a

\* C2: every call of the solver ends: it does not stay in the loop forever.
C2_SolverEnds == Iterating ~> (pc = "done")

\* C3: for RH = 0 with an initial estimate more than 1e-6 from 0, the solver
\* ends in ConvergenceFailure and in no other error.
C3_ZeroRHConvergenceFailure ==
    (Ended("T_wb_iter") /\ call.b = 0 /\ ~WithinTolerance(Value(0), W0(call.a, call.a)))
        => out = Raise("ConvergenceFailure")

\* rh is outside [0, 1]
OutOfRange(rh) == rh < 0 \/ rh > RHScale

\* C4: a relative humidity outside [0, 1] passed to W or to T_wb_iter is
\* rejected with InvalidInput; nothing is computed from it.
C4_RHOutOfRangeRejected ==
    (call.fn \in {"W", "T_wb_iter"} /\ OutOfRange(call.b))
        => (~Iterating /\ (pc = "done" => out = Raise("InvalidInput")))

\* the saturation pressure p is at or above atmospheric pressure
AtLeastPatm(p) == IsValue(p) /\ p.val >= Patm

\* C5: when the saturation pressure is at or above atmospheric pressure, W_sat
\* and its caller W0 end with PhysicalLimitExceeded.
C5_PhysicalLimitExceeded ==
    /\ (Ended("W_sat") /\ AtLeastPatm(P_v_sat(call.a)))
           => out = Raise("PhysicalLimitExceeded")
    /\ (Ended("W0") /\ AtLeastPatm(P_v_sat(call.b)))
           => out = Raise("PhysicalLimitExceeded")

\* C6: W1(T_db, T_wb) is the constant-cp formula with W_sat taken at its T_wb
\* argument, whatever the module-level Twb.
C6_W1OfItsArguments ==
    Ended("W1")
        => out = EstimateOf[Cp_w_const, Cp_v_const, Cp_da_const, W_sat(call.b),
                            call.a, call.b]

\* C7: P_v_sat(T_db) is P_ice_sat(T_db) exactly when T_db < 32 and P_w_sat(T_db)
\* for every T_db >= 32, 32 itself included.
C7_DispatchAt32 ==
    Ended("P_v_sat")
        => /\ call.a < 32 * TScale => out = P_ice_sat(call.a)
           /\ call.a >= 32 * TScale => out = P_w_sat(call.a)

\* P_v_sat has been called at 32 exactly, where the two correlations differ
C7_Witness ==
    /\ Ended("P_v_sat")
    /\ call.a = 32 * TScale
    /\ out = P_w_sat(call.a)
    /\ out # P_ice_sat(call.a)

\* C8: W(T_db, RH) is computed from the over-water pressure P_w_sat(T_db), also
\* below 32 F, and W_sat(T_db) from the dispatcher P_v_sat(T_db); so below 32 F
\* W(T_db, 1) is not the ratio of the pressure W_sat uses.
C8_WaterBranchInW ==
    /\ Ended("W") => out = RatioOf[P_w_sat(call.a), call.b]
    /\ Ended("W_sat") => out = RatioOf[P_v_sat(call.a), RHScale]
    /\ (Ended("W") /\ call.a < 32 * TScale /\ call.b = RHScale)
           => out # RatioOf[P_ice_sat(call.a), RHScale]

\* W has been called below 32 F at RH = 1
C8_Witness ==
    /\ Ended("W")
    /\ call.a = 20000000
    /\ call.b = RHScale
    /\ IsValue(out)

\* the humidity ratios w and w2 differ by at most one unit of 10^-8
WithinOne(w, w2) == IsValue(w2) /\ Abs(w.val - w2.val) <= 1

\* C9: with the wet bulb equal to the dry bulb, and a denominator other than 0,
\* W0(T, T) is W_sat(T), to the rounding of one unit of 10^-8.
C9_SaturatedAtEqualBulbs ==
    (Ended("W0") /\ call.a = call.b /\ IsValue(out))
        => WithinOne(out, W_sat(call.a))

\* W0 has been called with equal bulbs and has returned a humidity ratio
C9_Witness ==
    /\ Ended("W0")
    /\ call.a = 65000000
    /\ call.b = 65000000
    /\ IsValue(out)
    /\ out.val > 0

\* 0 < p < Patm
BelowPatm(p) == IsValue(p) /\ 0 < p.val /\ p.val < Patm

\* w is at most the humidity ratio w2
AtMost(w, w2) == IsValue(w2) /\ w.val <= w2.val

\* C10: for 0 < P_w_sat(T_db) < 14.696 psi, W(T_db, RH) is non-decreasing in RH
\* over [0, 1], with W(T_db, 0) = 0 as the minimum.
C10_MonotoneInRH ==
    (Ended("W") /\ ~OutOfRange(call.b) /\ BelowPatm(P_w_sat(call.a)))
        => /\ IsValue(out)
           /\ out.val >= 0
           /\ call.b = 0 => out.val = 0
           /\ \A rh \in RHs : (call.b <= rh /\ ~OutOfRange(rh)) => AtMost(out, W(call.a, rh))

\* W has been called at a relative humidity strictly inside [0, 1]
C10_Witness ==
    /\ Ended("W")
    /\ call.a = 65000000
    /\ call.b = 1400
    /\ IsValue(out)
    /\ out.val > 0

\* the humidity ratio w is within tol (units of 10^-8) of the value v
Near(w, v, tol) == IsValue(w) /\ Abs(w.val - v) <= tol

\* C11: at T_db = 65 F, W is about 0.001817 (to within 1e-5) for the RH
\* magnitude 0.14 the notebook passes, and about 0.0000181 (to within 1e-6)
\* for the fraction 0.0014.
C11_ReferenceRatio ==
    (Ended("W") /\ call.a = 65000000)
        => /\ call.b = 1400 => Near(out, 181700, 1000)
           /\ call.b = 14 => Near(out, 1812, 100)

\* W(65 F, 0.14) has returned the notebook's value 0.0018168 to within 1e-7
C11_Witness ==
    /\ Ended("W")
    /\ call.a = 65000000
    /\ call.b = 1400
    /\ Near(out, 181685, 10)

\* C11 as stated: at T_db = 65 F with the fraction RH = 0.0014, W is within 1e-5
\* of 0.001817.
C11_AsStated ==
    (Ended("W") /\ call.a = 65000000 /\ call.b = 14) => Near(out, 181700, 1000)

\* the running solve has T_db > 0 and RH in (0, 1]
PhysicalSolve == call.fn = "T_wb_iter" /\ call.a > 0 /\ call.b > 0 /\ call.b <= RHScale

\* C12: in a solve with T_db > 0 and RH in (0, 1], every pass of the loop body
\* leaves the trial magnitude positive, no larger than before and no larger
\* than T_db: 0 < T_wbm' <= T_wbm <= T_db.
C12_TrialOnlyShrinks ==
    [][(PhysicalSolve /\ pc = "body" /\ pc' = "while")
          => (0 < T_wbm' /\ T_wbm' <= T_wbm /\ T_wbm <= call.a)]_vars

\* the factor of line 236 is 1 - d, for d the value of deltaW()
Shrinks(d) == IsValue(d) => StepFactor(W_, W0_, d.val) = E8 - d.val

\* C13: whenever the loop body runs, the branch condition |_W0 - _W| > 0 of
\* line 236 holds and the factor is 1 - delta, never 1 + delta, whatever the
\* sign of the residual.
C13_ElseBranchUnreachable ==
    pc = "body" => (Abs(W0_ - W_) > 0 /\ Shrinks(deltaW(W_, W0_)))

\* the loop body runs with the estimate below the target and a positive delta
C13_Witness ==
    /\ pc = "body"
    /\ W0_ < W_
    /\ IsValue(deltaW(W_, W0_))
    /\ deltaW(W_, W0_).val > 0

\* the running solve has RH = 1 and T_db >= 32 F, with saturation pressure
\* below atmospheric pressure
SaturatedSolve ==
    /\ call.fn = "T_wb_iter"
    /\ call.b = RHScale
    /\ call.a >= 32 * TScale
    /\ BelowPatm(P_v_sat(call.a))

\* at the loop condition the trial is T_db, the target is W_sat(T_db) and the
\* estimate is the target, to the rounding of one unit of 10^-8
SaturatedOnEntry ==
    /\ T_wbm = call.a
    /\ Value(W_) = W_sat(call.a)
    /\ Abs(W0_ - W_) <= 1

\* C14: for RH = 1 and T_db >= 32 F the loop body never runs and the solver
\* returns exactly T_db: on entry the target and the estimate are W_sat(T_db).
C14_SaturatedReturnsDryBulb ==
    SaturatedSolve
        => /\ pc # "body"
           /\ pc = "while" => SaturatedOnEntry
           /\ pc = "done" => out = Value(call.a)

\* the solver has returned 65 F for T_db = 65 F and RH = 1
C14_Witness ==
    /\ Ended("T_wb_iter")
    /\ SaturatedSolve
    /\ call.a = 65000000
    /\ out = Value(65000000)

====
